---- MODULE Spec2Model ----
(***************************************************************************)
(* Model of the content script src/content/content.js: platform detection, *)
(* metadata extraction, the verdict classifiers and the submission         *)
(* observer with its cooldowns and counters.                               *)
(*                                                                         *)
(* Strings are sequences of symbols.  A symbol is one character class or   *)
(* one literal word of the script's vocabularies: "d" is a digit, " " is   *)
(* white space, "x" is any other character, "/" is a slash, and a word     *)
(* such as "Accepted" stands for exactly that run of characters.  null is  *)
(* a value different from every string; NoTime is the null of a timestamp. *)
(*                                                                         *)
(* A handler runs to completion on the page's event loop, so one handler   *)
(* run is one step and reads one value of the clock.  The clock is         *)
(* Date.now(): milliseconds since 1970, never decreasing in the model.     *)
(***************************************************************************)
EXTENDS Integers, Sequences, FiniteSets, TLC

VARIABLES
    now,                \* Date.now()
    url,                \* window.location, fixed for the life of the page
    dom,                \* selectors of DOM_MARKERS that resolve in the document
    doc,                \* the elements the metadata extractors read
    pc,                 \* "start" before the script body ran, "loaded" after
    detection,          \* const detection (line 405)
    metadata,           \* const metadata (line 410), NoMetadata when not extracted
    timer,              \* due time of the pending setTimeout, NoTime if none
    armed,              \* the MutationObserver is observing document.body
    obsPlatform,        \* platform captured by the observer's callback
    solveStartTime,
    submissionAttempts,
    lastAttemptEmit,
    lastSolveEmit,
    events,             \* payloads returned by emitSolveDetected, in order
    batch,              \* addedNodes of the batch delivered by the last step
    lastOp,             \* the operation that made the last step
    lastCountTime,      \* clock at the last increment of submissionAttempts, NoTime if none
    cls                 \* last results of the two classifiers on batch

vars == <<now, url, dom, doc, pc, detection, metadata, timer, armed,
          obsPlatform, solveStartTime, submissionAttempts, lastAttemptEmit,
          lastSolveEmit, events, batch, lastOp, lastCountTime, cls>>

null == <<"#null">>      \* null in a field that holds a string
NoPlatform == "none"     \* null in a field that holds a platform
NoUrl == [href |-> "null"]   \* null in a field that holds a URL
NoElement == [element |-> "null"]   \* null result of querySelector
NoMetadata == [extracted |-> FALSE]
NoTime == -1             \* null in a field that holds a timestamp

SOLVE_COOLDOWN_MS == 3000
ATTEMPT_COOLDOWN_MS == 1500
OBSERVER_START_DELAY_MS == 1500

(* Bounds of the model. *)
Epoch == 10000          \* Date.now() when the page loads
MaxElapsed == 8000      \* the clock stops MaxElapsed ms after the load
MaxPath == 4            \* longest URL path, in segments
MaxKids == 3            \* most child nodes of a fragment's root element
MaxAdded == 2           \* most added nodes in one mutation batch
MaxTags == 2            \* most tag elements in a document

(***************************************************************************)
(* Strings                                                                 *)
(***************************************************************************)
RECURSIVE trimStart(_)
trimStart(s) ==
    IF s # <<>> /\ Head(s) = " " THEN trimStart(Tail(s)) ELSE s

RECURSIVE trimEnd(_)
trimEnd(s) ==
    IF s # <<>> /\ s[Len(s)] = " " THEN trimEnd(SubSeq(s, 1, Len(s) - 1)) ELSE s

trim(s) == trimEnd(trimStart(s))

\* String.prototype.includes with a one-word needle
includes(s, w) == \E i \in 1..Len(s) : s[i] = w

\* first position >= i of s that does not hold a symbol of set
RECURSIVE skip(_, _, _)
skip(s, i, set) ==
    IF i <= Len(s) /\ s[i] \in set THEN skip(s, i + 1, set) ELSE i

(***************************************************************************)
(* URLs.  A URL is scheme://[www.]host/seg/.../seg[/][?query]; a segment   *)
(* is a literal word of the patterns, "1" (digits only), or "a-b" (a slug  *)
(* with a hyphen: neither digits only nor alphanumeric).  The query holds   *)
(* no slash and does not start with a digit.                               *)
(***************************************************************************)
Segments == {"problems", "problemset", "problem", "contest", "status", "1", "a-b"}
Origins ==
    { [scheme |-> "https", www |-> FALSE, host |-> "leetcode.com"],
      [scheme |-> "http",  www |-> TRUE,  host |-> "leetcode.com"],
      [scheme |-> "https", www |-> FALSE, host |-> "codeforces.com"],
      [scheme |-> "https", www |-> TRUE,  host |-> "geeksforgeeks.org"],
      [scheme |-> "https", www |-> FALSE, host |-> "practice.geeksforgeeks.org"],
      [scheme |-> "https", www |-> TRUE,  host |-> "practice.geeksforgeeks.org"],
      [scheme |-> "ftp",   www |-> FALSE, host |-> "codeforces.com"],
      [scheme |-> "https", www |-> FALSE, host |-> "example.com"] }

Paths(n) == UNION { [1..k -> Segments] : k \in 0..n }

Urls(n) ==
    { [origin |-> o, path |-> p, slash |-> s, query |-> q] :
        o \in Origins, p \in Paths(n), s \in BOOLEAN, q \in BOOLEAN }

IsDigits(seg) == seg = "1"                  \* \d+
IsAlnum(seg) == seg # "a-b"                 \* [A-Za-z0-9]+

\* ^https?:\/\/(www\.)?<host>
Prefix(u, host) ==
    /\ u.origin.scheme \in {"http", "https"}
    /\ u.origin.host = host

\* RegExp.prototype.test of the pattern named p on the URL u
test(p, u) ==
    LET path == u.path
        n == Len(path)
    IN CASE p = "leetcode/problems" ->
              /\ Prefix(u, "leetcode.com")
              /\ n >= 1 /\ path[1] = "problems"
              \* [^/]+ is the slug, or the query after a bare /problems/
              /\ (n = 2 \/ (n = 1 /\ u.slash /\ u.query))
         [] p = "codeforces/problemset/problem" ->
              /\ Prefix(u, "codeforces.com")
              /\ n = 4 /\ path[1] = "problemset" /\ path[2] = "problem"
              /\ IsDigits(path[3]) /\ IsAlnum(path[4]) /\ ~u.slash
         [] p = "codeforces/contest/problem" ->
              /\ Prefix(u, "codeforces.com")
              /\ n = 4 /\ path[1] = "contest" /\ IsDigits(path[2])
              /\ path[3] = "problem" /\ IsAlnum(path[4]) /\ ~u.slash
         [] p = "codeforces/problemset/status" ->
              /\ Prefix(u, "codeforces.com")
              /\ n >= 2 /\ path[1] = "problemset" /\ path[2] = "status"
         [] p = "codeforces/contest/status" ->
              /\ Prefix(u, "codeforces.com")
              /\ n = 3 /\ path[1] = "contest" /\ IsDigits(path[2])
              /\ path[3] = "status" /\ ~u.slash
         [] p = "gfg/problems" ->
              /\ Prefix(u, "geeksforgeeks.org")
              /\ n = 3 /\ path[1] = "problems" /\ IsDigits(path[3]) /\ ~u.slash
         [] p = "practice.gfg/problems" ->
              /\ Prefix(u, "practice.geeksforgeeks.org") /\ ~u.origin.www
              /\ n = 3 /\ path[1] = "problems" /\ IsDigits(path[3]) /\ ~u.slash

Platforms == <<"leetcode", "codeforces", "gfg">>

URL_PATTERNS ==
    [leetcode |-> <<"leetcode/problems">>,
     codeforces |-> <<"codeforces/problemset/problem", "codeforces/contest/problem",
                      "codeforces/problemset/status", "codeforces/contest/status">>,
     gfg |-> <<"gfg/problems", "practice.gfg/problems">>]

SUBMISSION_PAGE_PATTERNS ==
    [codeforces |-> <<"codeforces/problemset/status", "codeforces/contest/status">>]

DOM_MARKERS ==
    [leetcode |-> <<"[data-cy=question-title]", ".question-content", "[data-key=description]">>,
     codeforces |-> <<".problem-statement", ".problemindexholder", "#pageContent">>,
     gfg |-> <<>>]

urlMatches(u, patterns) == \E i \in 1..Len(patterns) : test(patterns[i], u)

\* document.querySelector(sel) !== null; the selectors are valid, no throw
domMatches(d, selectors) == \E i \in 1..Len(selectors) : selectors[i] \in d

\* detectPlatform with line 95 reading "result.submissionPage = isSubmissionPage"
detectPlatform_urlOnly(u, d) ==
    LET matching == { i \in 1..Len(Platforms) : urlMatches(u, URL_PATTERNS[Platforms[i]]) }
    IN IF matching = {}
       THEN [platform |-> NoPlatform, problemPage |-> FALSE, submissionPage |-> FALSE]
       ELSE LET first == CHOOSE i \in matching : \A j \in matching : i <= j
                platform == Platforms[first]
                markers == DOM_MARKERS[platform]
                hasDomMarker == IF Len(markers) = 0 THEN TRUE ELSE domMatches(d, markers)
                isSubmissionPage ==
                    IF platform \in DOMAIN SUBMISSION_PAGE_PATTERNS
                    THEN urlMatches(u, SUBMISSION_PAGE_PATTERNS[platform])
                    ELSE FALSE
            IN [platform |-> platform,
                problemPage |-> hasDomMarker,
                submissionPage |-> isSubmissionPage]


detectPlatform(u, d) ==
    LET matching == { i \in 1..Len(Platforms) : urlMatches(u, URL_PATTERNS[Platforms[i]]) }
    IN IF matching = {}
       THEN [platform |-> NoPlatform, problemPage |-> FALSE, submissionPage |-> FALSE]
       ELSE LET first == CHOOSE i \in matching : \A j \in matching : i <= j
                platform == Platforms[first]
                markers == DOM_MARKERS[platform]
                hasDomMarker == IF Len(markers) = 0 THEN TRUE ELSE domMatches(d, markers)
                isSubmissionPage ==
                    IF platform \in DOMAIN SUBMISSION_PAGE_PATTERNS
                    THEN urlMatches(u, SUBMISSION_PAGE_PATTERNS[platform])
                    ELSE FALSE
            IN [platform |-> platform,
                problemPage |-> hasDomMarker,
                submissionPage |-> isSubmissionPage \/ hasDomMarker]

(***************************************************************************)
(* DOM fragments.  A fragment is the part of the document a mutation batch *)
(* touches, as the sequence of its nodes in document order: node 1 is an   *)
(* element, and each of its children is a text node or a <span> holding    *)
(* one text node.  mark is what the selectors of the script see of an      *)
(* element: "result" matches the LeetCode result-container selector,       *)
(* "verdict-accepted" matches .verdict-accepted and [class*="verdict-"],   *)
(* "verdict-rejected" matches [class*="verdict-"] only.  Elements outside  *)
(* the fragment carry no mark.  A batch is a fragment and the set of its   *)
(* nodes that were added (the classifiers' result does not depend on the   *)
(* order of addedNodes).                                                   *)
(***************************************************************************)
ELEMENT_NODE == 1
TEXT_NODE == 3

RECURSIVE build(_, _)
build(kids, acc) ==
    IF kids = <<>> THEN acc
    ELSE LET k == Head(kids)
             t == [type |-> TEXT_NODE, parent |-> IF k.wrap THEN Len(acc) + 1 ELSE 1,
                   text |-> k.text, mark |-> "none"]
         IN IF k.wrap
            THEN build(Tail(kids),
                       acc \o <<[type |-> ELEMENT_NODE, parent |-> 1, text |-> <<>>, mark |-> "none"], t>>)
            ELSE build(Tail(kids), Append(acc, t))

Fragment(mark, kids) ==
    build(kids, <<[type |-> ELEMENT_NODE, parent |-> 0, text |-> <<>>, mark |-> mark]>>)

\* node.parentElement, 0 for null
parentElement(f, n) == f[n].parent

\* n and its ancestors, nearest first
RECURSIVE chain(_, _)
chain(f, n) == IF n = 0 THEN <<>> ELSE <<n>> \o chain(f, f[n].parent)

\* el.closest(selector), 0 for null
closest(f, n, marks) ==
    LET c == chain(f, n)
        hits == { i \in 1..Len(c) : f[c[i]].mark \in marks }
    IN IF hits = {} THEN 0 ELSE c[CHOOSE i \in hits : \A j \in hits : i <= j]

\* el.querySelectorAll('*'): the element descendants of n
elements(f, n) ==
    { m \in DOMAIN f : m # n /\ f[m].type = ELEMENT_NODE /\ \E i \in 1..Len(chain(f, m)) : chain(f, m)[i] = n }

\* el.querySelector(selector), 0 for null
querySelector(f, n, marks) ==
    LET hits == { m \in elements(f, n) : f[m].mark \in marks }
    IN IF hits = {} THEN 0 ELSE CHOOSE m \in hits : \A j \in hits : m <= j

RECURSIVE textFrom(_, _, _)
textFrom(f, n, i) ==
    IF i > Len(f) THEN <<>>
    ELSE (IF f[i].type = TEXT_NODE /\ \E j \in 1..Len(chain(f, i)) : chain(f, i)[j] = n
          THEN f[i].text ELSE <<>>) \o textFrom(f, n, i + 1)

\* node.textContent
textContent(f, n) == textFrom(f, n, 1)

RESULT_SELECTOR == {"result"}           \* [data-e2e-locator="console-result"], ...
VERDICT_OK_SELECTOR == {"verdict-accepted"}                       \* .verdict-accepted, .verdict-ok
VERDICT_SELECTOR == {"verdict-accepted", "verdict-rejected"}      \* [class*="verdict-"]

\* /\d[\d,]*\s*Accepted\s*\/\s*[\d.]/.test(s)
acceptedRate(s) ==
    \E i \in 1..Len(s) :
        /\ s[i] = "d"
        /\ LET k == skip(s, skip(s, i + 1, {"d", ","}), {" "})
           IN /\ k <= Len(s) /\ s[k] = "Accepted"
              /\ LET l == skip(s, k + 1, {" "})
                 IN /\ l <= Len(s) /\ s[l] = "/"
                    /\ LET m == skip(s, l + 1, {" "})
                       IN m <= Len(s) /\ s[m] \in {"d", "."}

\* String.prototype.toLowerCase, symbol by symbol
lowerSym(c) ==
    CASE c = "Success" -> "success"
      [] c = "Correct" -> "correct"
      [] c = "All test cases passed" -> "all test cases passed"
      [] c = "Accepted" -> "accepted"
      [] c = "Wrong Answer" -> "wrong answer"
      [] c = "OK" -> "ok"
      [] c = "Easy" -> "easy"
      [] c = "Medium" -> "medium"
      [] c = "Hard" -> "hard"
      [] OTHER -> c

toLowerCase(s) == [i \in 1..Len(s) |-> lowerSym(s[i])]

ATTEMPT_PATTERNS ==
    [leetcode |-> {"Accepted", "Wrong Answer", "Time Limit Exceeded", "Runtime Error",
                   "Compilation Error", "Memory Limit Exceeded", "Output Limit Exceeded"},
     codeforces |-> {"Accepted", "OK", "Wrong answer", "Time limit exceeded", "Runtime error",
                     "Memory limit exceeded", "Compilation error", "Hacked", "Partial"},
     gfg |-> {"All test cases passed", "Success", "Correct", "Wrong Answer",
              "Time Limit Exceeded", "Runtime Error"}]

isAttemptText(text, platform) ==
    IF platform \notin DOMAIN ATTEMPT_PATTERNS THEN FALSE
    ELSE LET t == trim(text)
         IN \E p \in ATTEMPT_PATTERNS[platform] : t = <<p>> \/ includes(t, p)

\* attemptNode without the verdict-class test of the added element itself
attemptNode_noVerdictClass(f, n, platform) ==
    IF f[n].type # ELEMENT_NODE THEN FALSE
    ELSE LET text == trim(textContent(f, n))
         IN IF isAttemptText(text, platform)
            THEN ~(platform = "leetcode" /\ acceptedRate(text))
            ELSE \E child \in elements(f, n) :
                    \/ platform = "codeforces" /\ closest(f, child, VERDICT_SELECTOR) # 0
                    \/ /\ isAttemptText(textContent(f, child), platform)
                       /\ ~(platform = "leetcode" /\ acceptedRate(textContent(f, child)))

\* body of the loop of checkNodesForAttempt for one added node
attemptNode(f, n, platform) ==
    IF f[n].type # ELEMENT_NODE THEN FALSE
    ELSE IF platform = "codeforces"
            /\ (closest(f, n, VERDICT_SELECTOR) # 0 \/ querySelector(f, n, VERDICT_SELECTOR) # 0)
    THEN TRUE
    ELSE LET text == trim(textContent(f, n))
         IN IF isAttemptText(text, platform)
            THEN ~(platform = "leetcode" /\ acceptedRate(text))
            ELSE \E child \in elements(f, n) :
                    \/ platform = "codeforces" /\ closest(f, child, VERDICT_SELECTOR) # 0
                    \/ /\ isAttemptText(textContent(f, child), platform)
                       /\ ~(platform = "leetcode" /\ acceptedRate(textContent(f, child)))

checkNodesForAttempt(b, platform) ==
    \E n \in b.added : attemptNode(b.frag, n, platform)

\* SUCCESS_DETECTORS[platform](node)
detector(f, node, platform) ==
    LET el == IF f[node].type = ELEMENT_NODE THEN node ELSE parentElement(f, node)
    IN CASE platform = "leetcode" ->
              IF el = 0 THEN FALSE
              ELSE IF acceptedRate(textContent(f, el)) THEN FALSE
              ELSE LET resultEl == closest(f, el, RESULT_SELECTOR)
                   IN IF resultEl # 0 /\ includes(textContent(f, resultEl), "Accepted")
                      THEN TRUE
                      ELSE trim(textContent(f, el)) = <<"Accepted">>
         [] platform = "codeforces" ->
              IF el = 0 THEN FALSE
              ELSE IF closest(f, el, VERDICT_OK_SELECTOR) # 0
                      \/ querySelector(f, el, VERDICT_OK_SELECTOR) # 0
              THEN TRUE
              ELSE LET text == trim(textContent(f, node))
                   IN text = <<"Accepted">> \/ text = <<"OK">>
         [] platform = "gfg" ->
              LET text == toLowerCase(trim(textContent(f, node)))
              IN \/ includes(text, "all test cases passed")
                 \/ includes(text, "success")
                 \/ text = <<"correct">>

\* body of the loop of checkNodesForSuccess for one added node
successNode(f, n, platform) ==
    \/ f[n].type = ELEMENT_NODE /\ detector(f, n, platform)
    \/ /\ f[n].type = TEXT_NODE
       /\ LET text == trim(textContent(f, n))
              parentText == IF parentElement(f, n) = 0 THEN <<>>
                            ELSE textContent(f, parentElement(f, n))
          IN \/ platform = "leetcode" /\ text = <<"Accepted">> /\ ~acceptedRate(parentText)
             \/ platform = "codeforces" /\ (text = <<"Accepted">> \/ text = <<"OK">>)
             \/ /\ platform = "gfg"
                /\ \/ includes(toLowerCase(text), "all test cases passed")
                   \/ includes(toLowerCase(text), "success")
                   \/ toLowerCase(text) = <<"correct">>
    \/ /\ f[n].type = ELEMENT_NODE
       /\ \E child \in elements(f, n) : detector(f, child, platform)

checkNodesForSuccess(b, platform) ==
    IF platform \notin {"leetcode", "codeforces", "gfg"} THEN FALSE
    ELSE \E n \in b.added : successNode(b.frag, n, platform)

(***************************************************************************)
(* Metadata extraction.  doc holds what the extractors read:               *)
(*   titleEl   textContent of the platform's title element, or null;       *)
(*   diffEl    the platform's difficulty element, or NoElement: svg says   *)
(*             whether it is an SVG element (className is then an object,  *)
(*             not a string), level is the word after "text-difficulty-"   *)
(*             in its class ("" if none), text is its textContent;         *)
(*   tagEls    textContent of the tag elements, in document order (for     *)
(*             Codeforces: of the tag boxes of the first .roundbox);       *)
(*   roundbox  a .roundbox element exists;                                 *)
(*   title     document.title.                                             *)
(***************************************************************************)
\* String.prototype.length: a word counts its characters
width(c) ==
    CASE c = "x50" -> 50            \* a run of 50 other characters
      [] c = "Codeforces" -> 10
      [] c = "Two Sum" -> 7
      [] OTHER -> 1

RECURSIVE length(_)
length(s) == IF s = <<>> THEN 0 ELSE width(Head(s)) + length(Tail(s))

segStr(seg) == IF seg = "a-b" THEN <<"a", "-", "b">> ELSE <<seg>>

\* s.replace(/-/g, ' ')
replaceHyphens(s) == [i \in 1..Len(s) |-> IF s[i] = "-" THEN " " ELSE s[i]]

\* window.location.pathname.match(/\/problems\/([^/]+)/): the slug, or null
slugMatch(u) ==
    LET hits == { i \in 1..(Len(u.path) - 1) : u.path[i] = "problems" }
    IN IF hits = {} THEN null
       ELSE segStr(u.path[(CHOOSE i \in hits : \A j \in hits : i <= j) + 1])

\* document.title.replace(/\s*-\s*Codeforces$/, '')
stripCodeforces(s) ==
    LET n == Len(s)
    IN IF n >= 1 /\ s[n] = "Codeforces"
       THEN LET e == trimEnd(SubSeq(s, 1, n - 1))
            IN IF e # <<>> /\ e[Len(e)] = "-"
               THEN trimEnd(SubSeq(e, 1, Len(e) - 1))
               ELSE s
       ELSE s

\* /\*(\d+)/ on a text: the first run of digits that follows a star, or null
ratingMatch(s) ==
    LET hits == { i \in 1..(Len(s) - 1) : s[i] = "*" /\ s[i + 1] = "d" }
    IN IF hits = {} THEN null
       ELSE LET i == CHOOSE h \in hits : \A j \in hits : h <= j
            IN SubSeq(s, i + 1, skip(s, i + 1, {"d"}) - 1)

RECURSIVE concat(_)
concat(ss) == IF ss = <<>> THEN <<>> ELSE Head(ss) \o concat(Tail(ss))

seqIncludes(q, x) == \E i \in 1..Len(q) : q[i] = x

\* the condition, besides "not empty and not yet pushed", under which a
\* platform's extractor pushes a tag
keepTag(platform, tag) ==
    CASE platform = "codeforces" -> tag[1] # "*"        \* !tag.startsWith('*')
      [] platform = "gfg" -> length(tag) < 50
      [] OTHER -> TRUE

\* tagEls.forEach(...): push the trimmed texts, once each
RECURSIVE pushTags(_, _, _)
pushTags(platform, tagEls, tags) ==
    IF tagEls = <<>> THEN tags
    ELSE LET tag == trim(Head(tagEls))
         IN pushTags(platform, Tail(tagEls),
                     IF tag # <<>> /\ keepTag(platform, tag) /\ ~seqIncludes(tags, tag)
                     THEN Append(tags, tag) ELSE tags)

Threw == [threw |-> TRUE]
Returned(meta) == [threw |-> FALSE, meta |-> meta]

\* EXTRACTORS[platform](): the record returned, or Threw
EXTRACTORS(platform, u, dc) ==
    LET slugTitle(t) ==
            IF t = null \/ t = <<>>
            THEN (IF slugMatch(u) # null THEN replaceHyphens(slugMatch(u)) ELSE t)
            ELSE t
        elTitle == IF dc.titleEl # null THEN trim(dc.titleEl) ELSE null
    IN CASE platform = "leetcode" ->
              IF dc.diffEl # NoElement /\ dc.diffEl.svg
              THEN Threw            \* cls.match is not a function
              ELSE Returned(
                    [title |-> slugTitle(elTitle),
                     difficulty |->
                        IF dc.diffEl = NoElement THEN null
                        ELSE IF lowerSym(dc.diffEl.level) \in {"easy", "medium", "hard"}
                        THEN <<lowerSym(dc.diffEl.level)>>
                        ELSE toLowerCase(trim(dc.diffEl.text)),
                     tags |-> pushTags("leetcode", dc.tagEls, <<>>),
                     url |-> u,
                     platform |-> "leetcode"])
         [] platform = "codeforces" ->
              Returned(
                [title |-> IF elTitle = null \/ elTitle = <<>>
                           THEN stripCodeforces(dc.title) ELSE elTitle,
                 difficulty |-> IF dc.roundbox THEN ratingMatch(concat(dc.tagEls)) ELSE null,
                 tags |-> IF dc.roundbox
                          THEN pushTags("codeforces", dc.tagEls, <<>>)
                          ELSE <<>>,
                 url |-> u,
                 platform |-> "codeforces"])
         [] platform = "gfg" ->
              Returned(
                [title |-> slugTitle(elTitle),
                 difficulty |->
                    IF dc.diffEl = NoElement THEN null
                    ELSE LET text == toLowerCase(trim(dc.diffEl.text))
                         IN IF includes(text, "easy") THEN <<"easy">>
                            ELSE IF includes(text, "medium") THEN <<"medium">>
                            ELSE IF includes(text, "hard") THEN <<"hard">>
                            ELSE null,
                 tags |-> pushTags("gfg", dc.tagEls, <<>>),
                 url |-> u,
                 platform |-> "gfg"])

emptyMetadata ==
    [title |-> null, difficulty |-> null, tags |-> <<>>, url |-> NoUrl, platform |-> NoPlatform]

\* extractProblemMetadata without its try/catch: the extractor's error leaves it
extractProblemMetadata_noCatch(u, d, dc) ==
    LET det == detectPlatform(u, d)
    IN IF det.platform = NoPlatform \/ ~det.problemPage THEN emptyMetadata
       ELSE LET r == EXTRACTORS(det.platform, u, dc)
            IN IF r.threw THEN r ELSE r.meta


extractProblemMetadata(u, d, dc) ==
    LET det == detectPlatform(u, d)
    IN IF det.platform = NoPlatform \/ ~det.problemPage THEN emptyMetadata
       ELSE LET r == EXTRACTORS(det.platform, u, dc)
            IN IF r.threw
               THEN [emptyMetadata EXCEPT !.platform = det.platform, !.url = u]
               ELSE r.meta

(***************************************************************************)
(* Solve tracking                                                          *)
(***************************************************************************)
\* startSolveTimer without its guard: every call restarts the timer
startSolveTimer_reset(start, t) == t

\* startSolveTimer(): the new value of solveStartTime
startSolveTimer(start, t) == IF start = NoTime THEN t ELSE start

\* Math.floor in place of Math.round
roundSeconds_floor(ms) == ms \div 1000

\* Math.round(x / 1000): the nearest integer, a half rounds up
roundSeconds(ms) == (ms + 500) \div 1000

getSolveStats(t, start, attempts) ==
    [timeSpent |-> IF start # NoTime THEN roundSeconds(t - start) ELSE 0,
     attempts |-> attempts]

emitSolveDetected(t, start, attempts) ==
    LET stats == getSolveStats(t, start, attempts)
    IN [solved |-> TRUE, timestamp |-> t,
        timeSpent |-> stats.timeSpent, attempts |-> stats.attempts]

\* line 383 with the comparison turned round
attemptCounted_reversed(attemptDetected, t, lastAttempt) ==
    attemptDetected /\ t - lastAttempt < ATTEMPT_COOLDOWN_MS

\* line 383: the batch is counted as an attempt
attemptCounted(attemptDetected, t, lastAttempt) ==
    attemptDetected /\ t - lastAttempt >= ATTEMPT_COOLDOWN_MS

\* line 388 without the cooldown
solveSuppressed_never(t, lastSolve) == FALSE

\* line 388: the solve cooldown has not elapsed
solveSuppressed(t, lastSolve) == t - lastSolve < SOLVE_COOLDOWN_MS

\* line 391 without its condition: every success is counted again
successCounted_always(attemptDetected, t, lastAttempt) == TRUE

\* line 391 with "attemptDetected &&" for "!attemptDetected ||": the success
\* step never counts, the attempt step has just set lastAttemptEmit
successCounted_onlyAttempts(attemptDetected, t, lastAttempt) ==
    attemptDetected /\ t - lastAttempt >= ATTEMPT_COOLDOWN_MS /\ lastAttempt # t

\* line 391 with the attempt test dropped: only the cooldown decides
successCounted_cooldownOnly(attemptDetected, t, lastAttempt) ==
    t - lastAttempt >= ATTEMPT_COOLDOWN_MS

\* line 391: the success step counts the batch
successCounted(attemptDetected, t, lastAttempt) ==
    ~attemptDetected \/ t - lastAttempt >= ATTEMPT_COOLDOWN_MS

(***************************************************************************)
(* Inputs                                                                  *)
(***************************************************************************)
DocSelectors == {"[data-cy=question-title]", ".question-content", ".problem-statement"}
\* the selectors the page of URL u can render: those detectPlatform queries
PageSelectors(u) ==
    LET det == detectPlatform(u, {})
    IN IF det.platform = NoPlatform THEN {}
       ELSE { sel \in {".question-content", ".problem-statement"} :
                \E i \in 1..Len(DOM_MARKERS[det.platform]) : DOM_MARKERS[det.platform][i] = sel }

url_leetcode ==
    [origin |-> [scheme |-> "https", www |-> FALSE, host |-> "leetcode.com"],
     path |-> <<"problems", "a-b">>, slash |-> TRUE, query |-> FALSE]
url_leetcode_bare ==
    [origin |-> [scheme |-> "https", www |-> FALSE, host |-> "leetcode.com"],
     path |-> <<"problems">>, slash |-> TRUE, query |-> TRUE]
url_codeforces ==
    [origin |-> [scheme |-> "https", www |-> FALSE, host |-> "codeforces.com"],
     path |-> <<"contest", "1", "problem", "1">>, slash |-> FALSE, query |-> FALSE]
url_codeforces_status ==
    [origin |-> [scheme |-> "https", www |-> FALSE, host |-> "codeforces.com"],
     path |-> <<"problemset", "status">>, slash |-> FALSE, query |-> TRUE]
url_gfg ==
    [origin |-> [scheme |-> "https", www |-> TRUE, host |-> "geeksforgeeks.org"],
     path |-> <<"problems", "a-b", "1">>, slash |-> FALSE, query |-> FALSE]
url_other ==
    [origin |-> [scheme |-> "https", www |-> FALSE, host |-> "example.com"],
     path |-> <<"problems", "a-b">>, slash |-> FALSE, query |-> FALSE]

PageUrls == {url_leetcode, url_codeforces, url_codeforces_status, url_gfg, url_other}
ExtractUrls == PageUrls \cup {url_leetcode_bare}

TitleTexts == {null, <<>>, <<" ", "Two Sum", " ">>}
DiffEls ==
    { NoElement,
      [svg |-> TRUE,  level |-> "Easy", text |-> <<>>],
      [svg |-> FALSE, level |-> "Easy", text |-> <<"x">>],
      [svg |-> FALSE, level |-> "",     text |-> <<" ", "Medium", " ">>],
      [svg |-> FALSE, level |-> "",     text |-> <<"x">>] }
TagTexts == {<<"x">>, <<" ", "x", " ">>, <<>>, <<"*", "d", "d">>, <<"x50">>}
DocTitles == {<<>>, <<"x", " ", "-", " ", "Codeforces">>}

Docs(n) ==
    [titleEl : TitleTexts, diffEl : DiffEls,
     tagEls : UNION { [1..k -> TagTexts] : k \in 0..n },
     roundbox : BOOLEAN, title : DocTitles]

\* a document without any of the elements the extractors read
bareDoc ==
    [titleEl |-> null, diffEl |-> NoElement, tagEls |-> <<>>,
     roundbox |-> FALSE, title |-> <<"x", " ", "-", " ", "Codeforces">>]

\* the title elements are the ones two of the DOM markers select
WellFormed(u, d, dc) ==
    LET platform == detectPlatform(u, d).platform
    IN /\ platform = "leetcode" => (dc.titleEl # null <=> "[data-cy=question-title]" \in d)
       /\ platform = "codeforces" => (dc.titleEl # null => ".problem-statement" \in d)

kid(wrap, text) == [wrap |-> wrap, text |-> text]

\* texts of the leaves of the fragments seen on a platform's pages
LeafTexts(platform) ==
    CASE platform = "leetcode" ->
            { <<"d", " ">>, <<"Accepted">>, <<" ", "/", " ", "d">>,
              <<"d", " ", "Accepted", " ", "/", " ", "d">>, <<"Wrong Answer">> }
      [] platform = "codeforces" ->
            { <<"Accepted">>, <<"OK">>, <<"Wrong answer">>, <<"x">> }
      [] platform = "gfg" ->
            { <<"Success">>, <<"success">>, <<"Correct">>, <<"Wrong Answer">>, <<"x">> }

RootMarks(platform) ==
    CASE platform = "leetcode" -> {"none", "result"}
      [] platform = "codeforces" -> {"none", "verdict-accepted", "verdict-rejected"}
      [] platform = "gfg" -> {"none"}

Fragments(platform, n) ==
    { Fragment(m, kids) :
        m \in RootMarks(platform),
        kids \in UNION { [1..k -> [wrap : BOOLEAN, text : LeafTexts(platform)]] : k \in 1..n } }

Batches(platform, n, a) ==
    UNION { { [frag |-> f, added |-> ns] :
                ns \in { x \in SUBSET DOMAIN f : x # {} /\ Cardinality(x) <= a } } :
            f \in Fragments(platform, n) }

noBatch == [frag |-> Fragment("none", <<>>), added |-> {}]

\* the batches delivered to the observer of a page
ObservedBatches(platform) ==
    LET one(m, t, ns) == [frag |-> Fragment(m, <<kid(FALSE, t)>>), added |-> ns]
    IN CASE platform = "leetcode" ->
            { noBatch,
              one("none", <<"x">>, {1}),
              one("none", <<"Wrong Answer">>, {1}),
              one("result", <<"Accepted">>, {1}),
              one("none", <<"Accepted">>, {2}),
              [frag |-> Fragment("none", << kid(TRUE, <<"d", " ">>), kid(TRUE, <<"Accepted">>),
                                            kid(TRUE, <<" ", "/", " ", "d">>) >>),
               added |-> {1}] }
      [] platform = "codeforces" ->
            { noBatch,
              one("none", <<"x">>, {1}),
              one("verdict-rejected", <<"Wrong answer">>, {1}),
              one("verdict-accepted", <<"Accepted">>, {1}),
              one("none", <<"OK">>, {2}) }
      [] platform = "gfg" ->
            { noBatch,
              one("none", <<"x">>, {1}),
              one("none", <<"Wrong Answer">>, {1}),
              one("none", <<"Success">>, {1}),
              one("none", <<"success">>, {1}) }

TickMs == 500               \* the clock's step, in ms

NotRun == [attempt |-> "not run", success |-> "not run"]

(***************************************************************************)
(* The page: the script body, the clock, the page's own DOM changes, the   *)
(* timer callback and the mutation callback.                               *)
(***************************************************************************)
InitScript ==
    /\ now = Epoch
    /\ pc = "start"
    /\ detection = [platform |-> NoPlatform, problemPage |-> FALSE, submissionPage |-> FALSE]
    /\ metadata = NoMetadata
    /\ timer = NoTime
    /\ armed = FALSE
    /\ obsPlatform = NoPlatform
    /\ solveStartTime = NoTime
    /\ submissionAttempts = 0
    /\ lastAttemptEmit = 0
    /\ lastSolveEmit = 0
    /\ events = <<>>
    /\ batch = noBatch
    /\ lastOp = "init"
    /\ lastCountTime = NoTime
    /\ cls = NotRun

Init ==
    /\ InitScript
    /\ url \in PageUrls
    /\ dom \in SUBSET PageSelectors(url)
    /\ doc = bareDoc
    /\ WellFormed(url, dom, doc)

\* lines 405-416: the body of the script
Bootstrap ==
    /\ pc = "start"
    /\ pc' = "loaded"
    /\ batch' = noBatch
    /\ lastOp' = "bootstrap"
    /\ LET det == detectPlatform(url, dom)
           submission == det.submissionPage /\ det.platform # NoPlatform
       IN /\ detection' = det
          /\ metadata' = IF det.problemPage /\ det.platform # NoPlatform
                         THEN extractProblemMetadata(url, dom, doc)
                         ELSE NoMetadata
          /\ solveStartTime' = IF submission THEN startSolveTimer(solveStartTime, now)
                               ELSE solveStartTime
          /\ timer' = IF submission THEN now + OBSERVER_START_DELAY_MS ELSE timer
    /\ UNCHANGED <<now, url, dom, doc, armed, obsPlatform, submissionAttempts,
                   lastAttemptEmit, lastSolveEmit, events,
                   lastCountTime, cls>>

Tick ==
    /\ pc = "loaded"
    /\ now + TickMs <= Epoch + MaxElapsed
    /\ now' = now + TickMs
    /\ batch' = noBatch
    /\ lastOp' = "tick"
    /\ UNCHANGED <<url, dom, doc, pc, detection, metadata, timer, armed, obsPlatform,
                   solveStartTime, submissionAttempts, lastAttemptEmit, lastSolveEmit,
                   events, lastCountTime, cls>>

\* the page renders or removes an element that a DOM marker selects, while
\* the observer's timer is pending
DomChange ==
    /\ pc = "loaded"
    /\ timer # NoTime
    /\ \E sel \in PageSelectors(url) :
        dom' = IF sel \in dom THEN dom \ {sel} ELSE dom \cup {sel}
    /\ batch' = noBatch
    /\ lastOp' = "domChange"
    /\ UNCHANGED <<now, url, doc, pc, detection, metadata, timer, armed, obsPlatform,
                   solveStartTime, submissionAttempts, lastAttemptEmit, lastSolveEmit,
                   events, lastCountTime, cls>>

\* lines 370-403, run by the timer of line 415
startSubmissionObserver ==
    /\ timer # NoTime
    /\ now >= timer
    /\ timer' = NoTime
    /\ batch' = noBatch
    /\ lastOp' = "startSubmissionObserver"
    /\ LET det == detectPlatform(url, dom)
       IN IF det.platform = NoPlatform \/ ~det.submissionPage
          THEN UNCHANGED <<armed, obsPlatform>>
          ELSE armed' = TRUE /\ obsPlatform' = det.platform
    /\ UNCHANGED <<now, url, dom, doc, pc, detection, metadata, solveStartTime,
                   submissionAttempts, lastAttemptEmit, lastSolveEmit, events,
                   lastCountTime, cls>>

\* lines 374-397: the MutationObserver callback on the batch b
MutationCallback(b) ==
    /\ armed
    /\ batch' = b
    /\ lastOp' = "mutation"
    /\ IF b.added = {}
       THEN UNCHANGED <<submissionAttempts, lastAttemptEmit, lastSolveEmit, events>>
       ELSE LET attemptDetected == checkNodesForAttempt(b, obsPlatform)
                counted == attemptCounted(attemptDetected, now, lastAttemptEmit)
                lastAttempt1 == IF counted THEN now ELSE lastAttemptEmit
                attempts1 == IF counted THEN submissionAttempts + 1 ELSE submissionAttempts
            IN /\ lastAttemptEmit' = lastAttempt1
               /\ IF ~solveSuppressed(now, lastSolveEmit) /\ checkNodesForSuccess(b, obsPlatform)
                  THEN LET attempts2 == IF successCounted(attemptDetected, now, lastAttempt1)
                                        THEN attempts1 + 1 ELSE attempts1
                       IN /\ submissionAttempts' = attempts2
                          /\ lastSolveEmit' = now
                          /\ events' = Append(events, emitSolveDetected(now, solveStartTime, attempts2))
                  ELSE /\ submissionAttempts' = attempts1
                       /\ UNCHANGED <<lastSolveEmit, events>>
    /\ lastCountTime' = IF submissionAttempts' # submissionAttempts THEN now ELSE lastCountTime
    /\ UNCHANGED <<now, url, dom, doc, pc, detection, metadata, timer, armed, obsPlatform,
                   solveStartTime, cls>>

Mutation == armed /\ \E b \in ObservedBatches(obsPlatform) : MutationCallback(b)

\* lines 340-344, called again after the script body has called it
StartSolveTimerAgain ==
    /\ pc = "loaded"
    /\ solveStartTime # NoTime
    /\ lastOp # "startSolveTimer"
    /\ solveStartTime' = startSolveTimer(solveStartTime, now)
    /\ batch' = noBatch
    /\ lastOp' = "startSolveTimer"
    /\ UNCHANGED <<now, url, dom, doc, pc, detection, metadata, timer, armed, obsPlatform,
                   submissionAttempts, lastAttemptEmit, lastSolveEmit, events,
                   lastCountTime, cls>>

Next ==
    \/ Bootstrap
    \/ Tick
    \/ DomChange
    \/ startSubmissionObserver
    \/ Mutation
    \/ StartSolveTimerAgain

Spec == Init /\ [][Next]_vars

(***************************************************************************)
(* detectPlatform on every URL and document of the bounds                  *)
(***************************************************************************)
DetectSelectors == {".question-content", "#pageContent"}

InitDetect ==
    /\ InitScript
    /\ url \in Urls(MaxPath)
    /\ dom \in SUBSET DetectSelectors
    /\ doc = bareDoc

SpecDetect == InitDetect /\ [][Bootstrap]_vars

(***************************************************************************)
(* extractProblemMetadata on every document of the bounds                  *)
(***************************************************************************)
InitExtract ==
    /\ InitScript
    /\ url \in ExtractUrls
    /\ dom \in SUBSET DocSelectors
    /\ doc \in Docs(MaxTags)
    /\ WellFormed(url, dom, doc)

SpecExtract == InitExtract /\ [][Bootstrap]_vars

(***************************************************************************)
(* The two classifiers on every batch of the bounds                        *)
(***************************************************************************)
InitClassify ==
    /\ InitScript
    /\ url = url_other
    /\ dom = {}
    /\ doc = bareDoc

\* a batch arrives on a page of the platform
Deliver ==
    /\ lastOp = "init"
    /\ \E platform \in {"leetcode", "codeforces", "gfg"} :
        /\ obsPlatform' = platform
        /\ batch' \in Batches(platform, MaxKids, MaxAdded)
    /\ lastOp' = "deliver"
    /\ UNCHANGED <<now, url, dom, doc, pc, detection, metadata, timer, armed,
                   solveStartTime, submissionAttempts, lastAttemptEmit, lastSolveEmit,
                   events, lastCountTime, cls>>

Classify ==
    /\ lastOp = "deliver"
    /\ cls' = [attempt |-> checkNodesForAttempt(batch, obsPlatform),
               success |-> checkNodesForSuccess(batch, obsPlatform)]
    /\ lastOp' = "classify"
    /\ UNCHANGED <<now, url, dom, doc, pc, detection, metadata, timer, armed, obsPlatform,
                   solveStartTime, submissionAttempts, lastAttemptEmit, lastSolveEmit,
                   events, batch, lastCountTime>>

NextClassify == Deliver \/ Classify

SpecClassify == InitClassify /\ [][NextClassify]_vars

(***************************************************************************)
(* Properties of the submission observer                                   *)
(***************************************************************************)
AttemptFires(b) == b.added # {} /\ checkNodesForAttempt(b, obsPlatform)
SuccessFires(b) == b.added # {} /\ checkNodesForSuccess(b, obsPlatform)
Last(q) == q[Len(q)]
\* the step is a run of the mutation callback on a batch that is not empty
HandlerStep == lastOp' = "mutation" /\ batch'.added # {}
\* the step emits a SolveEvent
Emits == Len(events') = Len(events) + 1 /\ SubSeq(events', 1, Len(events)) = events

EventsApart ==
    \A i, j \in 1..Len(events) :
        i < j => events[j].timestamp - events[i].timestamp >= SOLVE_COOLDOWN_MS

CooldownStep ==
    HandlerStep /\ SuccessFires(batch') =>
        IF events # <<>> /\ now - Last(events).timestamp < SOLVE_COOLDOWN_MS
        THEN events' = events
        ELSE Emits

\* C1: any two emitted SolveEvents are at least SOLVE_COOLDOWN_MS apart; a
\* batch on which the success classifier fires emits nothing when it arrives
\* less than SOLVE_COOLDOWN_MS after the last emitted SolveEvent, and emits
\* exactly one SolveEvent otherwise.
C1_SolveCooldown == []EventsApart /\ [][CooldownStep]_vars

\* two SolveEvents 4000 ms apart, then a success batch 500 ms after the
\* second one that emitted nothing
C1_Witness ==
    /\ Len(events) = 2
    /\ events[2].timestamp - events[1].timestamp = 4000
    /\ lastOp = "mutation" /\ SuccessFires(batch)
    /\ now - events[2].timestamp = 500

AttemptCountingStep ==
    HandlerStep =>
        /\ ( /\ AttemptFires(batch') /\ ~SuccessFires(batch')
             /\ now - lastAttemptEmit >= ATTEMPT_COOLDOWN_MS )
           => submissionAttempts' = submissionAttempts + 1 /\ events' = events
        /\ ( /\ SuccessFires(batch')
             /\ now - lastAttemptEmit >= ATTEMPT_COOLDOWN_MS
             /\ now - lastSolveEmit >= SOLVE_COOLDOWN_MS )
           => /\ submissionAttempts' = submissionAttempts + 1
              /\ Emits
              /\ Last(events').attempts = submissionAttempts'

\* C2: with the attempt cooldown elapsed, a batch on which only the attempt
\* classifier fires adds 1 to submissionAttempts and emits nothing; with both
\* cooldowns elapsed, a batch on which the success classifier fires adds 1
\* to submissionAttempts and emits one SolveEvent whose attempts field is the
\* new value of the counter.
C2_AttemptCounting == [][AttemptCountingStep]_vars

\* a wrong answer and then an accepted verdict: the only SolveEvent carries 2
C2_Witness ==
    /\ lastOp = "mutation" /\ SuccessFires(batch) /\ AttemptFires(batch)
    /\ submissionAttempts = 2
    /\ Len(events) = 1 /\ events[1].attempts = 2 /\ events[1].timestamp = now
    /\ lastAttemptEmit = now

\* C3: submissionAttempts starts at 0 and every step leaves it or adds 1 to it.
C3_AtMostOnePerBatch ==
    /\ submissionAttempts = 0
    /\ [][submissionAttempts' \in {submissionAttempts, submissionAttempts + 1}]_vars

\* a batch on which both classifiers fired, counted by the attempt step and
\* emitted by the success step, raised the counter from 0 to 1
C3_Witness ==
    /\ lastOp = "mutation" /\ SuccessFires(batch) /\ AttemptFires(batch)
    /\ lastAttemptEmit = now /\ lastSolveEmit = now
    /\ submissionAttempts = 1

\* C4 as stated: every batch that emits a SolveEvent adds exactly 1 to
\* submissionAttempts.
C4_EveryEmitCounts ==
    [][HandlerStep /\ Emits => submissionAttempts' = submissionAttempts + 1]_vars

\* C4: a batch that emits a SolveEvent adds exactly 1 to submissionAttempts,
\* unless the attempt classifier fired on it less than ATTEMPT_COOLDOWN_MS
\* after the last counted attempt: then it leaves the counter unchanged.
C4_EmitCountsOutsideCooldown ==
    [][HandlerStep /\ Emits =>
         submissionAttempts' = submissionAttempts +
            (IF AttemptFires(batch') /\ now - lastAttemptEmit < ATTEMPT_COOLDOWN_MS
             THEN 0 ELSE 1)]_vars

\* a SolveEvent emitted by a batch on which the attempt classifier fired
\* inside the attempt cooldown
C4_Witness ==
    /\ lastOp = "mutation" /\ SuccessFires(batch) /\ AttemptFires(batch)
    /\ lastSolveEmit = now /\ events # <<>> /\ Last(events).timestamp = now
    /\ lastAttemptEmit < now /\ now - lastAttemptEmit < ATTEMPT_COOLDOWN_MS

\* C5: every emitted SolveEvent has solved = true, attempts >= 1 and
\* timeSpent >= 0.
C5_SolveEventShape ==
    \A i \in 1..Len(events) :
        events[i].solved = TRUE /\ events[i].attempts >= 1 /\ events[i].timeSpent >= 0

\* the first SolveEvent, emitted by a batch on which the attempt classifier
\* did not fire
C5_Witness ==
    /\ lastOp = "mutation" /\ SuccessFires(batch) /\ ~AttemptFires(batch)
    /\ Len(events) = 1 /\ events[1].timestamp = now
    /\ events[1].attempts = 1

\* C7: solveStartTime is set by the script body, when it finds a submission
\* page, and no step changes it afterwards.
C7_TimerSetOnce ==
    [][ /\ solveStartTime # NoTime => solveStartTime' = solveStartTime
        /\ solveStartTime' # solveStartTime =>
              /\ lastOp' = "bootstrap"
              /\ detection'.submissionPage
              /\ solveStartTime' = now ]_vars

\* startSolveTimer called again after a SolveEvent: the timer still holds
\* the time of the load
C7_Witness ==
    /\ lastOp = "startSolveTimer"
    /\ events # <<>>
    /\ solveStartTime = Epoch /\ now > Epoch

\* C10: timeSpent is the number of milliseconds from solveStartTime to the
\* emission, divided by 1000 and rounded to the nearest whole number, a half
\* always rounding up; 7500 ms give 7 or 8.
C10_ElapsedTime ==
    \A i \in 1..Len(events) :
        LET d == events[i].timestamp - solveStartTime
            ts == events[i].timeSpent
        IN /\ 1000 * ts - 500 <= d /\ d < 1000 * ts + 500
           /\ d = 7500 => ts \in {7, 8}

\* the first SolveEvent, 7500 ms after the timer started
C10_Witness ==
    /\ Len(events) = 1
    /\ events[1].timestamp - solveStartTime = 7500
    /\ events[1].timeSpent = 8

(***************************************************************************)
(* Properties of detectPlatform                                            *)
(***************************************************************************)
\* the URL is one of the platform's own submission pages
SubmissionUrl(u, platform) ==
    /\ platform = "codeforces"
    /\ \/ test("codeforces/problemset/status", u)
       \/ test("codeforces/contest/status", u)

\* C6: isSubmissionPage is true whenever isProblemPage is true; when a
\* platform matches, isSubmissionPage is "the URL is one of that platform's
\* submission URLs, or isProblemPage"; when no URL pattern matches, the
\* result is {none, false, false}.
C6_SubmissionPageRelation ==
    pc = "loaded" =>
        /\ detection.problemPage => detection.submissionPage
        /\ IF \E platform \in {"leetcode", "codeforces", "gfg"} :
                 \E i \in 1..Len(URL_PATTERNS[platform]) : test(URL_PATTERNS[platform][i], url)
           THEN /\ detection.platform # NoPlatform
                /\ detection.submissionPage =
                      (SubmissionUrl(url, detection.platform) \/ detection.problemPage)
           ELSE detection = [platform |-> NoPlatform, problemPage |-> FALSE,
                             submissionPage |-> FALSE]

\* a Codeforces status page without any DOM marker: a submission page that
\* is not a problem page
C6_Witness ==
    /\ pc = "loaded"
    /\ detection.platform = "codeforces"
    /\ detection.submissionPage /\ ~detection.problemPage

(***************************************************************************)
(* Properties of extractProblemMetadata                                    *)
(***************************************************************************)
Extracted == pc = "loaded" /\ metadata # NoMetadata
Empty(x) == x = null \/ x = <<>>
\* the document has none of the elements the extractors read
LacksAll(dc) ==
    dc.titleEl = null /\ dc.diffEl = NoElement /\ dc.tagEls = <<>> /\ ~dc.roundbox
IsMetadata(m) == DOMAIN m = {"title", "difficulty", "tags", "url", "platform"}
\* the leetcode extractor throws on an SVG difficulty element
ExtractorThrows == detection.platform = "leetcode" /\ doc.diffEl # NoElement /\ doc.diffEl.svg
Annotated ==
    [title |-> null, difficulty |-> null, tags |-> <<>>, url |-> url,
     platform |-> detection.platform]

\* C8 as stated: the extractor never raises; on a document lacking all
\* expected elements the record has an empty title, an empty difficulty, no
\* tags and the detected platform; when the extractor throws the record is
\* the empty shape with the platform and the URL.
C8_EmptyOnBareDocument ==
    Extracted =>
        /\ IsMetadata(metadata)
        /\ LacksAll(doc) =>
              /\ Empty(metadata.title) /\ Empty(metadata.difficulty)
              /\ metadata.tags = <<>>
              /\ metadata.platform = detection.platform
        /\ ExtractorThrows => metadata = Annotated

\* the title a platform's extractor falls back to without a title element
FallbackTitle ==
    IF detection.platform = "codeforces" THEN stripCodeforces(doc.title)
    ELSE IF Len(url.path) >= 2 THEN replaceHyphens(segStr(url.path[2]))
    ELSE null

\* C8: the extractor never raises; on a document lacking all expected
\* elements the record has an empty difficulty, no tags, the detected
\* platform, the URL, and as title the fallback (the slug of the URL with
\* spaces for hyphens on leetcode and gfg, document.title without its
\* " - Codeforces" suffix on codeforces); when the extractor throws the record
\* is the empty shape with the platform and the URL.
C8_FallbackTitleOnBareDocument ==
    Extracted =>
        /\ IsMetadata(metadata)
        /\ LacksAll(doc) =>
              /\ metadata.title = FallbackTitle
              /\ Empty(metadata.difficulty)
              /\ metadata.tags = <<>>
              /\ metadata.platform = detection.platform
              /\ metadata.url = url
        /\ ExtractorThrows => metadata = Annotated

\* a gfg page without any of the elements: the title is the slug
C8_Witness ==
    /\ Extracted /\ LacksAll(doc)
    /\ detection.platform = "gfg"
    /\ metadata.title = <<"a", " ", "b">>
    /\ metadata.difficulty = null /\ metadata.tags = <<>>

(***************************************************************************)
(* Properties of the classifiers                                           *)
(***************************************************************************)
\* position k of t holds an "Accepted" that is part of "<n> Accepted / <n>"
InRate(t, k) ==
    /\ t[k] = "Accepted"
    /\ \E i \in 1..(k - 1) :
          t[i] = "d" /\ \A j \in (i + 1)..(k - 1) : t[j] = " "
    /\ \E l \in (k + 1)..Len(t) :
          /\ t[l] = "/" /\ \A j \in (k + 1)..(l - 1) : t[j] = " "
          /\ \E m \in (l + 1)..Len(t) :
                t[m] = "d" /\ \A j \in (l + 1)..(m - 1) : t[j] = " "

\* the text the batch renders holds "Accepted", only inside accepted-rate
\* text, and no other word
RateOnly(b) ==
    LET t == textContent(b.frag, 1)
    IN /\ \A k \in 1..Len(t) : t[k] \in {"d", " ", "/", "Accepted"}
       /\ \A k \in 1..Len(t) : t[k] = "Accepted" => InRate(t, k)
       /\ \E n \in b.added : includes(textContent(b.frag, n), "Accepted")

\* C9: on LeetCode, neither classifier fires on a batch in which "Accepted"
\* occurs only as part of accepted-rate text, whatever elements carry it.
C9_AcceptedRateIgnored ==
    (lastOp = "classify" /\ obsPlatform = "leetcode" /\ RateOnly(batch)) =>
        cls.attempt = FALSE /\ cls.success = FALSE

(***************************************************************************)
(* Properties of the attach protocol                                       *)
(***************************************************************************)
\* detection at page load reported a submission page
SubmissionAtLoad ==
    pc = "loaded" /\ detection.submissionPage /\ detection.platform # NoPlatform

\* the solve timer starts at the load
TimerStartsAtLoad == SubmissionAtLoad => solveStartTime = Epoch

\* "eventually Armed", as far as a finite run shows it: the timer callback is
\* the only code that arms the observer, so once it has run (no timer is
\* pending any more) the observer is armed
ArmedOnceCallbackRan == (SubmissionAtLoad /\ timer = NoTime) => armed

ArmedNotEarly == armed => now - Epoch >= OBSERVER_START_DELAY_MS

\* C11: when detection at page load reports a submission page, the solve
\* timer starts at the load and the observer becomes Armed when its start
\* callback runs, never earlier than OBSERVER_START_DELAY_MS after the load,
\* and stays Armed; no step before the attachment changes submissionAttempts
\* or emits a SolveEvent; all this whatever the page does to its DOM markers
\* during the startup delay.
C11_AttachProtocol ==
    /\ []TimerStartsAtLoad
    /\ []ArmedOnceCallbackRan
    /\ []ArmedNotEarly
    /\ [][armed => armed']_vars
    /\ [][~armed' => submissionAttempts' = submissionAttempts /\ events' = events]_vars

(***************************************************************************)
(* Properties of the attempt cooldown                                      *)
(***************************************************************************)
\* C12: any two increments of submissionAttempts, by the attempt step or by
\* the success step of the handler, are at least ATTEMPT_COOLDOWN_MS apart.
C12_IncrementsApart ==
    [][(submissionAttempts' # submissionAttempts /\ lastCountTime # NoTime) =>
          now - lastCountTime >= ATTEMPT_COOLDOWN_MS]_vars

(***************************************************************************)
(* The success classifier against the attempt classifier                   *)
(***************************************************************************)
Classified == lastOp = "classify"
ElementsOnly == \A n \in batch.added : batch.frag[n].type = ELEMENT_NODE

====
